---- MODULE Spec2Model ----
(***************************************************************************)
(* Model of the dragonfly server primitives of src/server/common.h         *)
(* (AggregateValue, Cancellation, GenericError, Context) and of the        *)
(* MEMORY command of src/server/memory_cmd.cc.                             *)
(*                                                                         *)
(* The objects modelled, each with its own next-state relation:            *)
(*   - one AggregateValue<T> shared by concurrent writers   (SpecLatch),   *)
(*   - one Context shared by concurrent shards               (SpecCtx),    *)
(*   - one MemoryCmd connection over a pool of shards        (SpecMem),    *)
(*   - one KeyIndex and the calls made on it                 (SpecKey),    *)
(*   - one ScanOpts built from an argument list              (SpecScan),   *)
(*   - one broadcast over the shards sharing the Context     (SpecFanout). *)
(* Spec is their composition.                                              *)
(***************************************************************************)
EXTENDS Integers, Sequences, FiniteSets, TLC

VARIABLES
    \* ---- AggregateValue<T> ----
    current_,      \* AggregateValue::current_
    latch_mu_,     \* AggregateValue::mu_ : 0 when free, else the holding writer
    wpc,           \* position of each writer inside operator=
    wval,          \* the argument val of each writer's current/last operator=
    wret,          \* the value returned by each writer's last operator=
    lread,         \* the last result of operator* / operator bool
    ncalls,        \* number of operator= calls started
    first_nd,      \* history: first non-default val to enter the critical section
    entered,       \* history: the set of vals that entered the critical section
    \* ---- Context : Cancellation ----
    flag_,         \* Cancellation::flag_
    err_,          \* Context::err_
    err_handler_,  \* Context::err_handler_
    ctx_mu_,       \* Context::mu_ : 0 when free, else the holding shard
    spc,           \* position of each shard inside Context::Error
    scand,         \* the GenericError each shard's Error call builds from its arguments
    nerr,          \* number of Error calls started
    reported,      \* history: the set of error codes Error was called with
    direct_cancel, \* history: Cancel() was called directly (not through Error)
    observed,      \* the result of the last IsCancelled() call
    err_writes,    \* history: number of assignments to err_
    \* ---- MemoryCmd over the shard pool ----
    pool_size,     \* shard_set->pool()->size()
    heap,          \* per shard thread: the areas of ServerState::tlocal()->data_heap()
    task,          \* per shard thread: the MallocStats(tid) call AwaitBrief handed to it
    cpc,           \* position of the connection's fiber inside MemoryCmd::Run
    args,          \* the CmdArgList of the current/last Run
    res,           \* the string res that AwaitBrief returned to Run
    reply,         \* the reply the current Run sent through cntx_
    nsent,         \* history: number of replies the current Run sent
    \* ---- KeyIndex ----
    kidx,          \* the KeyIndex of a command: bonus, start, end, step
    single_key,    \* the result of the last HasSingleKey() call
    nargs,         \* the result of the last num_args() call
    keys,          \* the argument positions the last key extraction yielded
    \* ---- ScanOpts ----
    scan_args,     \* the CmdArgList of the last ScanOpts::TryFrom call
    scan_res,      \* the OpResult<ScanOpts> it returned
    \* ---- broadcast over the shards ----
    bpc,           \* position of the caller of the broadcast
    bwork,         \* per shard: the state of the work handed to it
    bout,          \* per shard: the result its work produced
    bresult,       \* the mapping from shard to result the caller received
    \* ---- merge of the per-shard reports ----
    arena,         \* per shard: the number of entries of each shape its visit meets
    mrep,          \* per shard: the report its visit produced
    mpc,           \* position of the caller that merges the reports
    morder,        \* the order in which the caller folded the reports
    agg            \* the merged report

latch_vars == <<current_, latch_mu_, wpc, wval, wret, lread, ncalls, first_nd, entered>>
ctx_vars == <<flag_, err_, err_handler_, ctx_mu_, spc, scand, nerr, reported,
              direct_cancel, observed, err_writes>>
mem_vars == <<pool_size, heap, task, cpc, args, res, reply, nsent>>
key_vars == <<kidx, single_key, nargs, keys>>
scan_vars == <<scan_args, scan_res>>
fan_vars == <<bpc, bwork, bout, bresult>>
merge_vars == <<arena, mrep, mpc, morder, agg>>
ext_vars == <<key_vars, scan_vars, fan_vars, merge_vars>>
vars == <<latch_vars, ctx_vars, mem_vars, ext_vars>>

(***************************************************************************)
(* Bounds of the model.                                                    *)
(***************************************************************************)
NumWriters == 2      \* concurrent callers of AggregateValue::operator=
MaxVal == 2          \* values of T are 0..MaxVal
MaxCalls == 3        \* operator= calls in one run
NumShards == 2       \* concurrent callers of Context::Error
MaxCode == 2         \* error codes are 0..MaxCode
MaxErrCalls == 3     \* Error calls in one run
MaxShards == 4       \* the pool has 1..MaxShards shard threads
MaxBlocks == 2       \* live blocks and empty areas over all shard heaps
MaxSelLen == 2       \* length of the generated selector texts
MaxPos == 5          \* argument positions of a KeyIndex are 0..MaxPos
MaxStep == 2         \* the step of a KeyIndex is 1..MaxStep
MaxBonus == 2        \* the bonus position of a KeyIndex is 0..MaxBonus
MaxScanPairs == 2    \* option/value pairs in the arguments of ScanOpts::TryFrom
MaxCount == 3        \* entries of one shape that the visit of one shard meets

(***************************************************************************)
(* AggregateValue<T>  (common.h:172-193)                                   *)
(***************************************************************************)
Writers == 1..NumWriters
Values == 0..MaxVal

\* T{} : the value-initialised T (std::error_code{} / OpStatus::OK, common.h:198)
Default == 0

\* common.h:175 with the last-writer-wins slip: the test of current_ is dropped
ShouldStoreAlways(cur, val) == val # Default

\* common.h:175  if (current_ == T{} && val != T{})
ShouldStore(cur, val) == cur = Default /\ val # Default

\* common.h:178 returning whether the latch now holds val
WriteResultStored(cur, val) == cur = val

\* common.h:178  return val != T{};
WriteResult(cur, val) == val # Default

\* a caller enters operator=(val)
TryWriteCall(w, v) ==
    /\ wpc[w] = "idle"
    /\ ncalls < MaxCalls
    /\ ncalls' = ncalls + 1
    /\ wval' = [wval EXCEPT ![w] = v]
    /\ wret' = [wret EXCEPT ![w] = [done |-> FALSE, value |-> FALSE]]
    /\ wpc' = [wpc EXCEPT ![w] = "lock"]
    /\ UNCHANGED <<current_, latch_mu_, lread, first_nd, entered>>
    /\ UNCHANGED <<ctx_vars, mem_vars, ext_vars>>

\* common.h:174  std::lock_guard l{mu_};
TryWriteLock(w) ==
    /\ wpc[w] = "lock"
    /\ latch_mu_ = 0
    /\ latch_mu_' = w
    /\ wpc' = [wpc EXCEPT ![w] = "test"]
    /\ first_nd' = IF first_nd = Default THEN wval[w] ELSE first_nd
    /\ entered' = entered \cup {wval[w]}
    /\ UNCHANGED <<current_, wval, wret, lread, ncalls>>
    /\ UNCHANGED <<ctx_vars, mem_vars, ext_vars>>

\* common.h:175-177  the guarded assignment of current_
TryWriteStore(w) ==
    /\ wpc[w] = "test"
    /\ latch_mu_ = w
    /\ current_' = IF ShouldStore(current_, wval[w]) THEN wval[w] ELSE current_
    /\ wpc' = [wpc EXCEPT ![w] = "ret"]
    /\ UNCHANGED <<latch_mu_, wval, wret, lread, ncalls, first_nd, entered>>
    /\ UNCHANGED <<ctx_vars, mem_vars, ext_vars>>

\* common.h:178-179  the return value, then the lock_guard releases mu_
TryWriteReturn(w) ==
    /\ wpc[w] = "ret"
    /\ latch_mu_ = w
    /\ wret' = [wret EXCEPT ![w] = [done |-> TRUE, value |-> WriteResult(current_, wval[w])]]
    /\ latch_mu_' = 0
    /\ wpc' = [wpc EXCEPT ![w] = "idle"]
    /\ UNCHANGED <<current_, wval, lread, ncalls, first_nd, entered>>
    /\ UNCHANGED <<ctx_vars, mem_vars, ext_vars>>

\* common.h:181-184  T operator*() : a copy of current_ taken under mu_
LatchRead ==
    /\ latch_mu_ = 0
    /\ lread' = [value |-> current_, set |-> current_ # Default]
    /\ UNCHANGED <<current_, latch_mu_, wpc, wval, wret, ncalls, first_nd, entered>>
    /\ UNCHANGED <<ctx_vars, mem_vars, ext_vars>>

LatchInit ==
    /\ current_ = Default
    /\ latch_mu_ = 0
    /\ wpc = [w \in Writers |-> "idle"]
    /\ wval = [w \in Writers |-> Default]
    /\ wret = [w \in Writers |-> [done |-> FALSE, value |-> FALSE]]
    /\ lread = [value |-> Default, set |-> FALSE]
    /\ ncalls = 0
    /\ first_nd = Default
    /\ entered = {}

NextLatch ==
    \/ \E w \in Writers, v \in Values : TryWriteCall(w, v)
    \/ \E w \in Writers : TryWriteLock(w)
    \/ \E w \in Writers : TryWriteStore(w)
    \/ \E w \in Writers : TryWriteReturn(w)
    \/ LatchRead

(***************************************************************************)
(* Cancellation, GenericError, Context  (common.h:203-274)                 *)
(***************************************************************************)
Shards == 1..NumShards
Codes == 0..MaxCode
\* the detail strings of the model; "" is what GenericError(ec) leaves
Details == {"", "io"}

\* the empty std::function: no error handler installed
NoHandler == -1

\* common.h:219  GenericError() = default : the zero error_code and no details
EmptyError == [ec |-> 0, details |-> ""]

\* common.h:220-223  GenericError(ec) / GenericError(ec, details)
GenericError(ec, details) == [ec |-> ec, details |-> details]

\* common.h:233-235  operator bool() const { return bool(ec_); }
IsError(e) == e.ec # 0

\* the handlers of the model: h installed rejects exactly the errors of code h
\* (p(e) = (e.code != X)); common.h:251-252
HandlerAccepts(h, e) == e.ec # h

\* common.h:264 with the handler's answer ignored
AcceptedAlways(h, e) == TRUE

\* common.h:264  if (!err_handler_ || err_handler_(new_err))
Accepted(h, e) == h = NoHandler \/ HandlerAccepts(h, e)

\* common.h:260 with the test of err_ dropped: a later error overwrites
AlreadySetNever(e) == FALSE

\* common.h:260  if (err_) return;
AlreadySet(e) == IsError(e)

\* common.h:205 storing the wrong value
CancelValueToggle(f) == ~f

\* common.h:205  flag_.store(true, std::memory_order_relaxed);
CancelValue(f) == TRUE

\* common.h:266 left out: an accepted error that does not cancel
FlagAfterErrorKept(f) == f

\* common.h:266  Cancel();  inside Error
FlagAfterError(f) == CancelValue(f)

\* a shard enters Error(ts...) ; new_err is built from ts (common.h:263)
ErrorCall(s, ec, d) ==
    /\ spc[s] = "idle"
    /\ nerr < MaxErrCalls
    /\ nerr' = nerr + 1
    /\ scand' = [scand EXCEPT ![s] = GenericError(ec, d)]
    /\ reported' = reported \cup {ec}
    /\ spc' = [spc EXCEPT ![s] = "lock"]
    /\ UNCHANGED <<flag_, err_, err_handler_, ctx_mu_, direct_cancel, observed,
                   err_writes>>
    /\ UNCHANGED <<latch_vars, mem_vars, ext_vars>>

\* common.h:259  std::lock_guard lk{mu_};
ErrorLock(s) ==
    /\ spc[s] = "lock"
    /\ ctx_mu_ = 0
    /\ ctx_mu_' = s
    /\ spc' = [spc EXCEPT ![s] = "check"]
    /\ UNCHANGED <<flag_, err_, err_handler_, scand, nerr, reported, direct_cancel,
                   observed, err_writes>>
    /\ UNCHANGED <<latch_vars, mem_vars, ext_vars>>

\* common.h:260-261  if (err_) return;   (the return releases mu_ and ends the
\* life of the call's arguments)
ErrorCheck(s) ==
    /\ spc[s] = "check"
    /\ ctx_mu_ = s
    /\ IF AlreadySet(err_)
         THEN /\ ctx_mu_' = 0
              /\ spc' = [spc EXCEPT ![s] = "idle"]
              /\ scand' = [scand EXCEPT ![s] = EmptyError]
         ELSE /\ ctx_mu_' = ctx_mu_
              /\ spc' = [spc EXCEPT ![s] = "policy"]
              /\ scand' = scand
    /\ UNCHANGED <<flag_, err_, err_handler_, nerr, reported, direct_cancel,
                   observed, err_writes>>
    /\ UNCHANGED <<latch_vars, mem_vars, ext_vars>>

\* common.h:263-264  the candidate is offered to the handler, if there is one;
\* a rejected candidate ends the call
ErrorPolicy(s) ==
    /\ spc[s] = "policy"
    /\ ctx_mu_ = s
    /\ IF Accepted(err_handler_, scand[s])
         THEN /\ ctx_mu_' = ctx_mu_
              /\ spc' = [spc EXCEPT ![s] = "store"]
              /\ scand' = scand
         ELSE /\ ctx_mu_' = 0
              /\ spc' = [spc EXCEPT ![s] = "idle"]
              /\ scand' = [scand EXCEPT ![s] = EmptyError]
    /\ UNCHANGED <<flag_, err_, err_handler_, nerr, reported, direct_cancel,
                   observed, err_writes>>
    /\ UNCHANGED <<latch_vars, mem_vars, ext_vars>>

\* common.h:265  err_ = std::move(new_err);
ErrorStore(s) ==
    /\ spc[s] = "store"
    /\ ctx_mu_ = s
    /\ err_' = scand[s]
    /\ err_writes' = err_writes + 1
    /\ spc' = [spc EXCEPT ![s] = "cancel"]
    /\ UNCHANGED <<flag_, err_handler_, ctx_mu_, scand, nerr, reported, direct_cancel,
                   observed>>
    /\ UNCHANGED <<latch_vars, mem_vars, ext_vars>>

\* common.h:266  Cancel();
ErrorCancel(s) ==
    /\ spc[s] = "cancel"
    /\ ctx_mu_ = s
    /\ flag_' = FlagAfterError(flag_)
    /\ spc' = [spc EXCEPT ![s] = "unlock"]
    /\ UNCHANGED <<err_, err_handler_, ctx_mu_, scand, nerr, reported, direct_cancel,
                   observed, err_writes>>
    /\ UNCHANGED <<latch_vars, mem_vars, ext_vars>>

\* common.h:267-268  the end of Error: the lock_guard releases mu_
ErrorUnlock(s) ==
    /\ spc[s] = "unlock"
    /\ ctx_mu_ = s
    /\ ctx_mu_' = 0
    /\ spc' = [spc EXCEPT ![s] = "idle"]
    /\ scand' = [scand EXCEPT ![s] = EmptyError]
    /\ UNCHANGED <<flag_, err_, err_handler_, nerr, reported, direct_cancel,
                   observed, err_writes>>
    /\ UNCHANGED <<latch_vars, mem_vars, ext_vars>>

\* common.h:204-206  Cancel() called on the context directly, from any thread
Cancel ==
    /\ flag_' = CancelValue(flag_)
    /\ direct_cancel' = TRUE
    /\ UNCHANGED <<err_, err_handler_, ctx_mu_, spc, scand, nerr, reported, observed,
                   err_writes>>
    /\ UNCHANGED <<latch_vars, mem_vars, ext_vars>>

\* common.h:208-210  IsCancelled() : a relaxed load, no lock taken
IsCancelled ==
    /\ observed' = [called |-> TRUE, value |-> flag_]
    /\ UNCHANGED <<flag_, err_, err_handler_, ctx_mu_, spc, scand, nerr, reported,
                   direct_cancel, err_writes>>
    /\ UNCHANGED <<latch_vars, mem_vars, ext_vars>>

\* The state a constructor leaves.  Context(ErrHandler) (common.h:255) value-
\* initialises the base with Cancellation{}, which zeroes flag_.  Context() =
\* default (common.h:254) default-initialises it: flag_ (common.h:213) has no
\* initialiser, so its first value is indeterminate.
CtxInitWith(h, f) ==
    /\ flag_ = f
    /\ err_ = EmptyError
    /\ err_handler_ = h
    /\ ctx_mu_ = 0
    /\ spc = [s \in Shards |-> "idle"]
    /\ scand = [s \in Shards |-> EmptyError]
    /\ nerr = 0
    /\ reported = {}
    /\ direct_cancel = FALSE
    /\ observed = [called |-> FALSE, value |-> FALSE]
    /\ err_writes = 0

CtxInit ==
    \/ \E f \in BOOLEAN : CtxInitWith(NoHandler, f)
    \/ \E h \in Codes \cup {NoHandler} : CtxInitWith(h, FALSE)

NextCtx ==
    \/ \E s \in Shards, ec \in Codes, d \in Details : ErrorCall(s, ec, d)
    \/ \E s \in Shards : ErrorLock(s)
    \/ \E s \in Shards : ErrorCheck(s)
    \/ \E s \in Shards : ErrorPolicy(s)
    \/ \E s \in Shards : ErrorStore(s)
    \/ \E s \in Shards : ErrorCancel(s)
    \/ \E s \in Shards : ErrorUnlock(s)
    \/ Cancel
    \/ IsCancelled

(***************************************************************************)
(* MemoryCmd  (memory_cmd.cc:21-93)                                        *)
(* The allocator's own statistics text (memory_cmd.cc:69) and the clock    *)
(* readings of memory_cmd.cc:67,87 are opaque to the command and are not   *)
(* part of the report modelled here.                                       *)
(***************************************************************************)
\* shard threads are numbered from 0, as pool()->at(i) numbers them
PoolIds == 0..(MaxShards - 1)

\* uint32_t tid (memory_cmd.cc:50) is kept as two 16-bit limbs, hi * LimbBase
\* + lo, so that the 32-bit limit is exact
LimbBase == 65536

\* a text is a sequence of one-character strings
Digits == <<"0", "1", "2", "3", "4", "5", "6", "7", "8", "9">>
IsDigit(c) == \E i \in 1..10 : Digits[i] = c
DigitOf(c) == (CHOOSE i \in 1..10 : Digits[i] = c) - 1
\* the vertical tab (byte 0x0B), for which a string has no escape
VT == "\\v"
\* absl::ascii_isspace: space, \t, \n, \v, \f, \r
IsSpace(c) == c \in {" ", "\t", "\n", VT, "\f", "\r"}

\* absl::SimpleAtoi strips the white space around the number
RECURSIVE StripLeft(_)
StripLeft(t) == IF t # <<>> /\ IsSpace(Head(t)) THEN StripLeft(Tail(t)) ELSE t
RECURSIVE StripRight(_)
StripRight(t) ==
    IF t # <<>> /\ IsSpace(t[Len(t)]) THEN StripRight(SubSeq(t, 1, Len(t) - 1)) ELSE t

\* value * 10 + digit on the two limbs; hi reaches LimbBase exactly when the
\* result does not fit 32 bits
TimesTenPlus(v, d) ==
    LET lo == v.lo * 10 + d
    IN  [hi |-> v.hi * 10 + (lo \div LimbBase), lo |-> lo % LimbBase]

\* the digit loop of absl::SimpleAtoi for an unsigned 32-bit result: a
\* character that is no digit, or a value that does not fit, makes it fail
RECURSIVE ParsePositive(_, _)
ParsePositive(t, value) ==
    IF t = <<>> THEN [ok |-> TRUE, hi |-> value.hi, lo |-> value.lo]
    ELSE IF ~IsDigit(Head(t)) THEN [ok |-> FALSE, hi |-> value.hi, lo |-> value.lo]
    ELSE LET next == TimesTenPlus(value, DigitOf(Head(t)))
         IN  IF next.hi >= LimbBase
               THEN [ok |-> FALSE, hi |-> LimbBase - 1, lo |-> LimbBase - 1]
               ELSE ParsePositive(Tail(t), next)

\* memory_cmd.cc:51 with a parser that, like atoi, reports no failure and
\* leaves 0 for a text it cannot read
SimpleAtoiNoFailure(text) == [ok |-> TRUE, hi |-> 0, lo |-> 0]

\* memory_cmd.cc:51  absl::SimpleAtoi(ArgS(args, 2), &tid) with uint32_t tid:
\* white space stripped, an optional sign, then digits; an empty text, a lone
\* sign and any '-' fail
SimpleAtoi(text) ==
    LET t == StripRight(StripLeft(text))
        failed == [ok |-> FALSE, hi |-> 0, lo |-> 0]
    IN  IF t = <<>> THEN failed
        ELSE IF Head(t) = "-" THEN failed
        ELSE LET u == IF Head(t) = "+" THEN Tail(t) ELSE t
             IN  IF u = <<>> THEN failed
                 ELSE ParsePositive(u, [hi |-> 0, lo |-> 0])

\* memory_cmd.cc:54 clamping to the last shard instead
NormalizeTidClamp(tid, n) ==
    IF tid.hi > 0 \/ tid.lo >= n THEN n - 1 ELSE tid.lo

\* memory_cmd.cc:54  tid = tid % shard_set->pool()->size();
\* (hi * LimbBase + lo) % n, taken limb by limb
NormalizeTid(tid, n) == ((tid.hi % n) * (LimbBase % n) + (tid.lo % n)) % n

\* facade: the text of the integer-argument error (memory_cmd.cc:52)
kInvalidIntErr == "invalid integer argument"

\* facade: the type of a syntax error (memory_cmd.cc:61)
kSyntaxErrType == "syntax_error"

\* facade: UnknownSubCmd(sub_cmd, cmd), the error text naming the sub-command
\* and the command family (memory_cmd.cc:60)
UnknownSubCmd(sub_cmd, cmd) == [error |-> "unknown sub-command", sub_cmd |-> sub_cmd, cmd |-> cmd]

\* the replies of the connection: every reply has the same three fields
SendLong(n) == [kind |-> "long", payload |-> n, type |-> ""]
SendBulkString(str) == [kind |-> "bulk", payload |-> str, type |-> ""]
SendError(msg, type) == [kind |-> "error", payload |-> msg, type |-> type]
NoReply == [kind |-> "none", payload |-> 0, type |-> ""]
NoResult == [tid |-> 0, rows |-> {}, reserved |-> 0, committed |-> 0, used |-> 0]
NoTask == -1

\* the size classes of the model. A block of 8 bytes lies in a page of
\* small blocks that holds capacity of them and that the heap retains when
\* its last block is freed; a block of 1 MiB has a page of its own, which
\* goes when the block is freed. reserved and committed are the figures of
\* the mi_heap_area_t of such a page.
BlockKinds ==
    << [block_size |-> 8, reserved |-> 65512, committed |-> 4096,
        capacity |-> 8189, retained |-> TRUE],
       [block_size |-> 1048576, reserved |-> 1048576, committed |-> 1048576,
        capacity |-> 1, retained |-> FALSE] >>
KindIds == 1..Len(BlockKinds)

\* a heap is a bag of areas (pages): h[k][u] is the number of its areas of
\* size class k with u live blocks (mi_heap_area_t::used)
UsedCounts == 0..MaxBlocks
EmptyHeap == [k \in KindIds |-> [u \in UsedCounts |-> 0]]

\* the areas a heap can hold, as <<size class, used>>
Areas == {a \in KindIds \X UsedCounts : a[2] <= BlockKinds[a[1]].capacity}

\* memory_cmd.cc:33  the BlockKey MiArenaVisit builds for a visited area of
\* size class k with u live blocks
BlockKey(k, u) ==
    <<BlockKinds[k].block_size, BlockKinds[k].reserved, BlockKinds[k].committed,
      u * BlockKinds[k].block_size>>

\* memory_cmd.cc:34  (*bmap)[bkey]++ once for every visited area of the heap
\* h: the count block_map ends with under key key
RECURSIVE CountKey(_, _, _)
CountKey(h, key, areas) ==
    IF areas = {} THEN 0
    ELSE LET a == CHOOSE x \in areas : TRUE
         IN  (IF BlockKey(a[1], a[2]) = key THEN h[a[1]][a[2]] ELSE 0)
             + CountKey(h, key, areas \ {a})

\* memory_cmd.cc:77  mi_heap_visit_blocks(data_heap, false, MiArenaVisit,
\* &block_map): MiArenaVisit (30-37) is called once for every area of the
\* heap, an area without live blocks included; block_map afterwards, as a
\* set of <<key, count>>
VisitBlocks(h) ==
    { <<key, CountKey(h, key, Areas)>> :
        key \in {BlockKey(a[1], a[2]) : a \in {x \in Areas : h[x[1]][x[2]] > 0}} }

\* memory_cmd.cc:78-85  one running total over the rows of block_map (uint64_t;
\* the totals of the model stay far below 2^64)
RECURSIVE SumRows(_, _)
SumRows(rows, i) ==
    IF rows = {} THEN 0
    ELSE LET r == CHOOSE x \in rows : TRUE
         IN  r[2] * r[1][i] + SumRows(rows \ {r}, i)

\* memory_cmd.cc:64-93  MallocStats(tid) run on a thread whose data heap is h
MallocStats(tid, h) ==
    LET block_map == VisitBlocks(h)
    IN  [tid |-> tid,
         rows |-> block_map,
         reserved |-> SumRows(block_map, 2),
         committed |-> SumRows(block_map, 3),
         used |-> SumRows(block_map, 4)]

\* the texts offered as shard selector: every text of up to MaxSelLen
\* characters of SelChars, and some around the 32-bit limit, signed, padded
\* or malformed
SelChars == {"7", "-"}
RECURSIVE TextsOfLen(_)
TextsOfLen(n) ==
    IF n = 0 THEN {<<>>}
    ELSE {<<c>> \o t : c \in SelChars, t \in TextsOfLen(n - 1)}
SelectorTexts ==
    UNION {TextsOfLen(n) : n \in 0..MaxSelLen}
    \cup { <<"4", "2", "9", "4", "9", "6", "7", "2", "9", "5">>,
           <<"4", "2", "9", "4", "9", "6", "7", "2", "9", "6">>,
           <<"4", "2", "9", "4", "9", "6", "7", "2", "9", "9">>,
           <<"4", "2", "9", "4", "9", "6", "7", "2", "9", "5", "0">>,
           <<"9", "9", "9", "9", "9", "9", "9", "9", "9">>,
           <<" ", "+", "1", "1", " ">>,
           <<"0">>, <<"4">>, <<"0", "0">>, <<"0", "7">>, <<"4", "0">>,
           <<" ">>, <<" ", "7">>, <<"7", " ">>, <<"7", " ", "7">>,
           <<VT, "7">>, <<"7", VT>>, <<" ", VT, " ", "7">>, <<"\t", "7", "\n">>,
           <<"+">>, <<"+", "7">>, <<"7", "x">>, <<"x">>, <<"1", ".", "0">> }

SubCmds == {"USAGE", "MALLOC-STATS", "DOCTOR", "usage", ""}

\* the argument lists of the model: the command name, the sub-command, and
\* an optional further argument, the selector of MALLOC-STATS
ArgLists ==
    {<<"MEMORY", sc>> : sc \in SubCmds}
    \cup {<<"MEMORY", "MALLOC-STATS", t>> : t \in SelectorTexts}
    \cup {<<"MEMORY", sc, <<"7">>>> : sc \in {"USAGE", "DOCTOR"}}

\* facade: ArgS(args, i), the i-th argument counted from 0
ArgS(a, i) == a[i + 1]

\* memory_cmd.cc:49 taking every sub-command but USAGE for MALLOC-STATS
IsMallocStatsAny(sub_cmd) == sub_cmd # "USAGE"

\* memory_cmd.cc:49  sub_cmd == "MALLOC-STATS"
IsMallocStats(sub_cmd) == sub_cmd = "MALLOC-STATS"

\* memory_cmd.cc:46 with a test no sub-command passes
IsUsageNever(sub_cmd) == FALSE

\* memory_cmd.cc:46  sub_cmd == "USAGE"
IsUsage(sub_cmd) == sub_cmd = "USAGE"

\* memory_cmd.cc:44-62  MemoryCmd::Run up to the reply it sends or, for
\* MALLOC-STATS, up to the AwaitBrief that hands MallocStats(tid) to shard
\* thread tid and suspends the caller
Run(a) ==
    /\ cpc = "idle"
    /\ args' = a
    /\ LET sub_cmd == ArgS(a, 1)
       IN  IF IsUsage(sub_cmd)
             THEN /\ reply' = SendLong(1)
                  /\ nsent' = nsent + 1
                  /\ cpc' = "replied"
                  /\ task' = task
           ELSE IF IsMallocStats(sub_cmd)
             THEN LET parsed == IF Len(a) >= 3 THEN SimpleAtoi(ArgS(a, 2))
                                ELSE [ok |-> TRUE, hi |-> 0, lo |-> 0]
                  IN  IF ~parsed.ok
                        THEN /\ reply' = SendError(kInvalidIntErr, "")
                             /\ nsent' = nsent + 1
                             /\ cpc' = "replied"
                             /\ task' = task
                        ELSE LET tid == NormalizeTid(parsed, pool_size)
                             IN  /\ task' = [task EXCEPT ![tid] = tid]
                                 /\ cpc' = "await"
                                 /\ UNCHANGED <<reply, nsent>>
           ELSE /\ reply' = SendError(UnknownSubCmd(sub_cmd, "MEMORY"), kSyntaxErrType)
                /\ nsent' = nsent + 1
                /\ cpc' = "replied"
                /\ task' = task
    /\ UNCHANGED <<pool_size, heap, res>>
    /\ UNCHANGED <<latch_vars, ctx_vars, ext_vars>>

\* memory_cmd.cc:74 with the heap of shard thread 0 whatever thread runs it
DataHeapOfFirstShard(s) == heap[0]

\* memory_cmd.cc:74  ServerState::tlocal()->data_heap() on shard thread s
DataHeap(s) == heap[s]

\* memory_cmd.cc:55  the lambda [&] { return MallocStats(tid); } runs on the
\* shard thread it was handed to, against that thread's own data heap
ShardRunTask(s) ==
    /\ s < pool_size
    /\ task[s] # NoTask
    /\ cpc = "await"
    /\ res' = MallocStats(task[s], DataHeap(s))
    /\ task' = [task EXCEPT ![s] = NoTask]
    /\ cpc' = "resume"
    /\ UNCHANGED <<pool_size, heap, args, reply, nsent>>
    /\ UNCHANGED <<latch_vars, ctx_vars, ext_vars>>

\* memory_cmd.cc:55-57  AwaitBrief returns res and Run sends it
RunReply ==
    /\ cpc = "resume"
    /\ reply' = SendBulkString(res)
    /\ nsent' = nsent + 1
    /\ cpc' = "replied"
    /\ UNCHANGED <<pool_size, heap, task, args, res>>
    /\ UNCHANGED <<latch_vars, ctx_vars, ext_vars>>

\* memory_cmd.cc:48,52,57,61  Run returns: its arguments and res end their life,
\* and the connection is ready for the next command
RunReturn ==
    /\ cpc = "replied"
    /\ cpc' = "idle"
    /\ args' = <<>>
    /\ res' = NoResult
    /\ reply' = NoReply
    /\ nsent' = 0
    /\ UNCHANGED <<pool_size, heap, task>>
    /\ UNCHANGED <<latch_vars, ctx_vars, ext_vars>>

\* the number of live blocks over all shard heaps
LiveBlocks(h) ==
    Cardinality({ x \in PoolIds \X Areas \X (1..MaxBlocks) :
                    x[3] <= h[x[1]][x[2][1]][x[2][2]] * x[2][2] })

\* the size of one heap as the model bounds it: its live blocks and its
\* areas without a live block, from size class k and used count u downwards
RECURSIVE HeapLoad(_, _, _)
HeapLoad(h, k, u) ==
    IF k = 0 THEN 0
    ELSE h[k][u] * (IF u = 0 THEN 1 ELSE u)
         + (IF u = 0 THEN HeapLoad(h, k - 1, MaxBlocks) ELSE HeapLoad(h, k, u - 1))

\* that size over the heaps of the shards 0..s
RECURSIVE PoolLoad(_, _)
PoolLoad(hp, s) ==
    IF s < 0 THEN 0
    ELSE HeapLoad(hp[s], Len(BlockKinds), MaxBlocks) + PoolLoad(hp, s - 1)

\* a shard thread allocates a block of size class k on its own data heap: in
\* an area of the class that has room or, when there is none, in a new area
ShardAlloc(s, k) ==
    /\ s < pool_size
    /\ LET room == {u \in UsedCounts : heap[s][k][u] > 0 /\ u < BlockKinds[k].capacity}
       IN  IF room = {}
             THEN /\ PoolLoad(heap, MaxShards - 1) < MaxBlocks
                  /\ heap' = [heap EXCEPT ![s][k][1] = @ + 1]
             ELSE \E u \in room :
                     /\ u < MaxBlocks
                     /\ u = 0 \/ PoolLoad(heap, MaxShards - 1) < MaxBlocks
                     /\ heap' = [heap EXCEPT ![s][k][u] = @ - 1, ![s][k][u + 1] = @ + 1]
    /\ UNCHANGED <<pool_size, task, cpc, args, res, reply, nsent>>
    /\ UNCHANGED <<latch_vars, ctx_vars, ext_vars>>

\* a shard thread frees a block of size class k of its own data heap; the
\* area of the block stays in the heap, unless it is the block's own page
ShardFree(s, k) ==
    /\ s < pool_size
    /\ \E u \in {x \in UsedCounts : x > 0 /\ heap[s][k][x] > 0} :
          IF u = 1 /\ ~BlockKinds[k].retained
            THEN heap' = [heap EXCEPT ![s][k][u] = @ - 1]
            ELSE heap' = [heap EXCEPT ![s][k][u] = @ - 1, ![s][k][u - 1] = @ + 1]
    /\ UNCHANGED <<pool_size, task, cpc, args, res, reply, nsent>>
    /\ UNCHANGED <<latch_vars, ctx_vars, ext_vars>>

MemInitWith(n) ==
    /\ pool_size = n
    /\ heap = [s \in PoolIds |-> EmptyHeap]
    /\ task = [s \in PoolIds |-> NoTask]
    /\ cpc = "idle"
    /\ args = <<>>
    /\ res = NoResult
    /\ reply = NoReply
    /\ nsent = 0

MemInit == \E n \in 1..MaxShards : MemInitWith(n)

NextMem ==
    \/ \E a \in ArgLists : Run(a)
    \/ \E s \in PoolIds : ShardRunTask(s)
    \/ RunReply
    \/ RunReturn
    \/ \E s \in PoolIds, k \in KindIds : ShardAlloc(s, k)
    \/ \E s \in PoolIds, k \in KindIds : ShardFree(s, k)

(***************************************************************************)
(* KeyIndex  (common.h:59-74)                                              *)
(* The fields are positions in a command's argument list, far below the    *)
(* range of unsigned, so that no sum or difference below wraps.            *)
(***************************************************************************)
\* the descriptors of command definitions: end is an open limit at or after
\* start, and the step is at least 1
Descriptors ==
    { k \in [bonus : 0..MaxBonus, start : 0..MaxPos, end : 0..MaxPos, step : 1..MaxStep] :
        k.end >= k.start }

\* common.h:68 with a strict comparison
HasSingleKeyStrict(k) == k.bonus = 0 /\ (k.start + k.step > k.end)

\* common.h:67-69  bool HasSingleKey() const
HasSingleKey(k) == k.bonus = 0 /\ (k.start + k.step >= k.end)

\* common.h:71-73  unsigned num_args() const
num_args(k) == k.end - k.start + (IF k.bonus > 0 THEN 1 ELSE 0)

\* the positions i, i + step, ... strictly below end
RECURSIVE KeyPositionsFrom(_, _)
KeyPositionsFrom(k, i) ==
    IF i >= k.end THEN <<>> ELSE <<i>> \o KeyPositionsFrom(k, i + k.step)

\* key extraction as the locking subsystem performs it: the positions start,
\* start + step, ... strictly below end, in order, then the bonus position
\* when bonus is not 0
ExtractKeys(k) ==
    KeyPositionsFrom(k, k.start) \o (IF k.bonus # 0 THEN <<k.bonus>> ELSE <<>>)

\* a caller asks the descriptor whether it has a single key
HasSingleKeyCall ==
    /\ single_key' = [called |-> TRUE, value |-> HasSingleKey(kidx)]
    /\ UNCHANGED <<kidx, nargs, keys>>
    /\ UNCHANGED <<latch_vars, ctx_vars, mem_vars, scan_vars, fan_vars, merge_vars>>

\* a caller asks the descriptor for its number of arguments
NumArgsCall ==
    /\ nargs' = [called |-> TRUE, value |-> num_args(kidx)]
    /\ UNCHANGED <<kidx, single_key, keys>>
    /\ UNCHANGED <<latch_vars, ctx_vars, mem_vars, scan_vars, fan_vars, merge_vars>>

\* the locking subsystem walks the argument list with the descriptor
ExtractKeysCall ==
    /\ keys' = [called |-> TRUE, value |-> ExtractKeys(kidx)]
    /\ UNCHANGED <<kidx, single_key, nargs>>
    /\ UNCHANGED <<latch_vars, ctx_vars, mem_vars, scan_vars, fan_vars, merge_vars>>

\* a command definition with the descriptor k, nothing asked of it yet
KeyInitWith(k) ==
    /\ kidx = k
    /\ single_key = [called |-> FALSE, value |-> FALSE]
    /\ nargs = [called |-> FALSE, value |-> 0]
    /\ keys = [called |-> FALSE, value |-> <<>>]

KeyInit == \E k \in Descriptors : KeyInitWith(k)

NextKey ==
    \/ HasSingleKeyCall
    \/ NumArgsCall
    \/ ExtractKeysCall

(***************************************************************************)
(* ScanOpts  (common.h:276-284)                                            *)
(* The members and their default initialisers are those of common.h; the   *)
(* body of TryFrom is not part of common.h and follows the description of  *)
(* the parse: option/value pairs, limits and bucket ids validated.         *)
(***************************************************************************)
\* common.h:280  UINT_MAX, the bucket id that restricts nothing, on two limbs
UINT_MAX == [hi |-> LimbBase - 1, lo |-> LimbBase - 1]

\* common.h:277-280 with every member zeroed
ScanOptsZeroed == [pattern |-> <<>>, limit |-> 0, type_filter |-> <<>>,
                   bucket_id |-> [hi |-> 0, lo |-> 0]]

\* common.h:277-280  a ScanOpts as its default member initialisers leave it
ScanOptsDefault == [pattern |-> <<>>, limit |-> 10, type_filter |-> <<>>,
                    bucket_id |-> UINT_MAX]

\* the results of TryFrom: a ScanOpts, or the status of a structured error
ScanOk(opts) == [called |-> TRUE, status |-> "OK", opts |-> opts]
ScanError(status) == [called |-> TRUE, status |-> status, opts |-> ScanOptsDefault]

\* the parse of the option/value pairs of a from position i on, opts being
\* what the pairs before i gave
RECURSIVE ParsePairs(_, _, _)
ParsePairs(a, i, opts) ==
    IF i > Len(a) THEN ScanOk(opts)
    ELSE IF i = Len(a) THEN ScanError("SYNTAX_ERR")
    ELSE LET opt == a[i]
             val == a[i + 1]
             num == SimpleAtoi(val)
         IN  IF opt = "COUNT"
               THEN IF ~num.ok \/ (num.hi = 0 /\ num.lo = 0)
                      THEN ScanError("INVALID_INT")
                      ELSE ParsePairs(a, i + 2,
                              [opts EXCEPT !.limit = num.hi * LimbBase + num.lo])
             ELSE IF opt = "MATCH"
               THEN ParsePairs(a, i + 2, [opts EXCEPT !.pattern = val])
             ELSE IF opt = "TYPE"
               THEN ParsePairs(a, i + 2, [opts EXCEPT !.type_filter = val])
             ELSE IF opt = "BUCKET"
               THEN IF ~num.ok
                      THEN ScanError("INVALID_BUCKET_ID")
                      ELSE ParsePairs(a, i + 2,
                              [opts EXCEPT !.bucket_id = [hi |-> num.hi, lo |-> num.lo]])
             ELSE ScanError("SYNTAX_ERR")

\* common.h:283  static OpResult<ScanOpts> TryFrom(CmdArgList args)
TryFrom(a) == ParsePairs(a, 1, ScanOptsDefault)

\* the options and the value texts offered to TryFrom
ScanOptions == {"COUNT", "MATCH", "TYPE", "BUCKET", "LIMIT"}
ScanValues == { <<"5">>, <<"0">>, <<"-", "1">>, <<"u", "*">>, <<"1", "0">>, <<>> }

\* the argument lists of up to n pairs, and those with a last option that has
\* no value
RECURSIVE ScanPairLists(_)
ScanPairLists(n) ==
    IF n = 0 THEN {<<>>}
    ELSE LET shorter == ScanPairLists(n - 1)
         IN  shorter \cup
             { l \o <<k, v>> : l \in {x \in shorter : Len(x) = 2 * (n - 1)},
                               k \in ScanOptions, v \in ScanValues }

ScanArgLists ==
    ScanPairLists(MaxScanPairs) \cup
    { l \o <<k>> : l \in ScanPairLists(MaxScanPairs - 1), k \in ScanOptions }

\* an iteration command builds its ScanOpts from its arguments
TryFromCall ==
    /\ ~scan_res.called
    /\ \E a \in ScanArgLists :
          /\ scan_args' = a
          /\ scan_res' = TryFrom(a)
    /\ UNCHANGED <<latch_vars, ctx_vars, mem_vars, key_vars, fan_vars, merge_vars>>

\* the iteration call ends, and its arguments and its ScanOpts with it
ScanRelease ==
    /\ scan_res.called
    /\ scan_args' = <<>>
    /\ scan_res' = [called |-> FALSE, status |-> "OK", opts |-> ScanOptsDefault]
    /\ UNCHANGED <<latch_vars, ctx_vars, mem_vars, key_vars, fan_vars, merge_vars>>

ScanInit ==
    /\ scan_args = <<>>
    /\ scan_res = [called |-> FALSE, status |-> "OK", opts |-> ScanOptsDefault]

NextScan ==
    \/ TryFromCall
    \/ ScanRelease

(***************************************************************************)
(* Broadcast over the shards                                               *)
(* common.h declares no broadcast; the one modelled here is the described  *)
(* one: the work is handed to every shard, the caller is suspended until   *)
(* every shard has finished, and the work of a shard may call Error on the *)
(* shared Context (the Error steps above) or poll its cancellation flag.   *)
(***************************************************************************)
\* the barrier taken for passed as soon as one shard has finished
SomeFinished(w) == \E s \in Shards : w[s] = "finished"

\* the barrier of the broadcast: the work of every shard has finished
AllFinished(w) == \A s \in Shards : w[s] = "finished"

NoWork == [s \in Shards |-> "none"]

\* the caller hands the work to every shard and suspends
Broadcast ==
    /\ bpc = "idle"
    /\ bpc' = "wait"
    /\ bwork' = [s \in Shards |-> "queued"]
    /\ UNCHANGED <<bout, bresult>>
    /\ UNCHANGED <<latch_vars, ctx_vars, mem_vars, key_vars, scan_vars, merge_vars>>

\* a shard's own execution context takes up the work
ShardStart(s) ==
    /\ bwork[s] = "queued"
    /\ bwork' = [bwork EXCEPT ![s] = "running"]
    /\ UNCHANGED <<bpc, bout, bresult>>
    /\ UNCHANGED <<latch_vars, ctx_vars, mem_vars, key_vars, scan_vars, merge_vars>>

\* the running work of a shard reports an error to the shared Context
ShardError(s, ec) ==
    /\ bwork[s] = "running"
    /\ ErrorCall(s, ec, "io")

\* the work of a shard polls IsCancelled(), reads true and gives up
ShardPollStop(s) ==
    /\ bwork[s] = "running"
    /\ spc[s] = "idle"
    /\ flag_
    /\ bwork' = [bwork EXCEPT ![s] = "finished"]
    /\ bout' = [bout EXCEPT ![s] = "stopped"]
    /\ UNCHANGED <<bpc, bresult>>
    /\ UNCHANGED <<latch_vars, ctx_vars, mem_vars, key_vars, scan_vars, merge_vars>>

\* the work of a shard runs to its end
ShardFinish(s) ==
    /\ bwork[s] = "running"
    /\ spc[s] = "idle"
    /\ bwork' = [bwork EXCEPT ![s] = "finished"]
    /\ bout' = [bout EXCEPT ![s] = "complete"]
    /\ UNCHANGED <<bpc, bresult>>
    /\ UNCHANGED <<latch_vars, ctx_vars, mem_vars, key_vars, scan_vars, merge_vars>>

\* the caller resumes with the mapping from shard to result
BroadcastReturn ==
    /\ bpc = "wait"
    /\ AllFinished(bwork)
    /\ bpc' = "done"
    /\ bresult' = bout
    /\ UNCHANGED <<bwork, bout>>
    /\ UNCHANGED <<latch_vars, ctx_vars, mem_vars, key_vars, scan_vars, merge_vars>>

FanInit ==
    /\ bpc = "idle"
    /\ bwork = NoWork
    /\ bout = NoWork
    /\ bresult = NoWork

NextFanout ==
    \/ Broadcast
    \/ \E s \in Shards : ShardStart(s)
    \/ \E s \in Shards, ec \in Codes : ShardError(s, ec)
    \/ \E s \in Shards : ErrorLock(s)
    \/ \E s \in Shards : ErrorCheck(s)
    \/ \E s \in Shards : ErrorPolicy(s)
    \/ \E s \in Shards : ErrorStore(s)
    \/ \E s \in Shards : ErrorCancel(s)
    \/ \E s \in Shards : ErrorUnlock(s)
    \/ \E s \in Shards : ShardPollStop(s)
    \/ \E s \in Shards : ShardFinish(s)
    \/ BroadcastReturn

(***************************************************************************)
(* Merge of the per-shard reports                                          *)
(* memory_cmd.cc builds the report of one thread only; the merge modelled  *)
(* here is the described one: every shard visits its own arena and counts  *)
(* what it meets per shape (block_size, reserved, committed, used), and    *)
(* the caller, once every shard has reported, unions the histograms by     *)
(* shape, summing the counts, and accumulates the three totals as count    *)
(* times figure over the rows of every shard.                              *)
(***************************************************************************)
\* the shapes an arena of the model holds
ShapeKeys == {<<8, 8, 8, 8>>, <<16, 64, 32, 16>>}
ArenaContents == [ShapeKeys -> 0..MaxCount]

\* the orders in which the reports of the shards can be folded
ShardOrders ==
    {q \in [1..NumShards -> Shards] : \A i, j \in 1..NumShards : q[i] = q[j] => i = j}

EmptyAggregate == [rows |-> {}, reserved |-> 0, committed |-> 0, used |-> 0]

\* the report of shard s on an arena a: one row per shape met, with the
\* number of entries of that shape, and the totals over these rows
ShardReportOf(s, a) ==
    LET rows == {<<k, a[k]>> : k \in {x \in ShapeKeys : a[x] > 0}}
    IN  [tid |-> s,
         rows |-> rows,
         reserved |-> SumRows(rows, 2),
         committed |-> SumRows(rows, 3),
         used |-> SumRows(rows, 4)]

\* the count a histogram has under shape k, 0 when it has no such row
RowCount(rows, k) ==
    IF \E r \in rows : r[1] = k THEN (CHOOSE r \in rows : r[1] = k)[2] ELSE 0

\* the merge step with counts that are not summed: the count of the report
\* folded last replaces the count merged so far
MergeReportLastWins(a, rep) ==
    [rows |-> {<<k, IF RowCount(rep.rows, k) > 0 THEN RowCount(rep.rows, k)
                                                   ELSE RowCount(a.rows, k)>> :
                 k \in {r[1] : r \in a.rows \cup rep.rows}},
     reserved |-> a.reserved + SumRows(rep.rows, 2),
     committed |-> a.committed + SumRows(rep.rows, 3),
     used |-> a.used + SumRows(rep.rows, 4)]

\* the merge step for one shard report: the histograms united by shape with
\* the counts summed, and the running totals advanced by count times figure
\* for every row of the report
MergeReport(a, rep) ==
    [rows |-> {<<k, RowCount(a.rows, k) + RowCount(rep.rows, k)>> :
                 k \in {r[1] : r \in a.rows \cup rep.rows}},
     reserved |-> a.reserved + SumRows(rep.rows, 2),
     committed |-> a.committed + SumRows(rep.rows, 3),
     used |-> a.used + SumRows(rep.rows, 4)]

\* the reports reps folded into one in the order of the first n shards of q
RECURSIVE FoldReports(_, _, _)
FoldReports(q, reps, n) ==
    IF n = 0 THEN EmptyAggregate
    ELSE MergeReport(FoldReports(q, reps, n - 1), reps[q[n]])

\* the work of shard s: it visits its arena and hands back its report
ShardVisit(s) ==
    /\ mpc = "wait"
    /\ mrep[s].tid # s
    /\ mrep' = [mrep EXCEPT ![s] = ShardReportOf(s, arena[s])]
    /\ UNCHANGED <<arena, mpc, morder, agg>>
    /\ UNCHANGED <<latch_vars, ctx_vars, mem_vars, key_vars, scan_vars, fan_vars>>

\* the caller, every shard having reported, folds the reports in the order q
MergeReports(q) ==
    /\ mpc = "wait"
    /\ \A s \in Shards : mrep[s].tid = s
    /\ agg' = FoldReports(q, mrep, NumShards)
    /\ morder' = q
    /\ mpc' = "done"
    /\ UNCHANGED <<arena, mrep>>
    /\ UNCHANGED <<latch_vars, ctx_vars, mem_vars, key_vars, scan_vars, fan_vars>>

MergeInitWith(a) ==
    /\ arena = a
    /\ mrep = [s \in Shards |-> NoResult]
    /\ mpc = "wait"
    /\ morder = <<>>
    /\ agg = EmptyAggregate

MergeInit == \E a \in [Shards -> ArenaContents] : MergeInitWith(a)

NextMerge ==
    \/ \E s \in Shards : ShardVisit(s)
    \/ \E q \in ShardOrders : MergeReports(q)

(***************************************************************************)
(* Specifications                                                          *)
(***************************************************************************)
Init == LatchInit /\ CtxInit /\ MemInit /\ KeyInit /\ ScanInit /\ FanInit /\ MergeInit

Next == NextLatch \/ NextCtx \/ NextMem \/ NextKey \/ NextScan \/ NextFanout \/ NextMerge

Spec == Init /\ [][Next]_vars

\* the objects a specification leaves aside stay as constructed
IdleKey == KeyInitWith([bonus |-> 0, start |-> 0, end |-> 0, step |-> 1])
IdleMerge == MergeInitWith([s \in Shards |-> [k \in ShapeKeys |-> 0]])
IdleExt == IdleKey /\ ScanInit /\ FanInit /\ IdleMerge
IdleCtx == CtxInitWith(NoHandler, FALSE)
IdleMem == MemInitWith(1)

\* one AggregateValue under concurrent writers
InitLatch == LatchInit /\ IdleCtx /\ IdleMem /\ IdleExt

SpecLatch == InitLatch /\ [][NextLatch]_vars

\* one Context under concurrent shards
InitCtx == LatchInit /\ CtxInit /\ IdleMem /\ IdleExt

SpecCtx == InitCtx /\ [][NextCtx]_vars

\* one connection issuing MEMORY commands to the shard pool
InitMem == LatchInit /\ IdleCtx /\ MemInit /\ IdleExt

SpecMem == InitMem /\ [][NextMem]_vars

\* the calls made on the KeyIndex of one command definition
InitKey == LatchInit /\ IdleCtx /\ IdleMem /\ KeyInit /\ ScanInit /\ FanInit /\ IdleMerge

SpecKey == InitKey /\ [][NextKey]_vars

\* ScanOpts built from argument lists
InitScan == LatchInit /\ IdleCtx /\ IdleMem /\ IdleKey /\ ScanInit /\ FanInit /\ IdleMerge

SpecScan == InitScan /\ [][NextScan]_vars

\* one broadcast over the shards that share a Context; the Context is built
\* with a handler or without one
InitFanout ==
    /\ LatchInit /\ IdleMem /\ IdleKey /\ ScanInit /\ FanInit /\ IdleMerge
    /\ \E h \in Codes \cup {NoHandler} : CtxInitWith(h, FALSE)

SpecFanout == InitFanout /\ [][NextFanout]_vars

\* one merge of the reports of the shards, each shard with an arena of its own
InitMerge == LatchInit /\ IdleCtx /\ IdleMem /\ IdleKey /\ ScanInit /\ FanInit /\ MergeInit

SpecMerge == InitMerge /\ [][NextMerge]_vars

(***************************************************************************)
(* Properties of AggregateValue<T>                                         *)
(***************************************************************************)

\* C1: once current_ differs from T{}, no step of any operator= call, whatever
\* its argument and however the calls interleave, changes current_.
C1_LatchMonotonic == [][current_ # Default => current_' = current_]_vars

\* a non-default value is latched and a later write of another non-default
\* value has completed without replacing it
C1_Witness ==
    /\ current_ # Default
    /\ \E w \in Writers : /\ wret[w].done
                          /\ wval[w] # Default
                          /\ wval[w] # current_

\* C2: the latch holds T{} or a value some write offered; once every write that
\* entered the critical section has passed its store, the latch holds T{} iff
\* no such write offered a non-default value, and otherwise holds the value of
\* the first non-default write to have entered the critical section.
C2_FirstCandidateWins ==
    /\ current_ \in {Default} \cup entered
    /\ (\A w \in Writers : wpc[w] # "test") =>
          /\ current_ = first_nd
          /\ (current_ = Default <=> entered \subseteq {Default})

\* all calls are over, two different non-default values and the default were
\* offered, and the latch holds the first of them
C2_Witness ==
    /\ \A w \in Writers : wpc[w] = "idle"
    /\ ncalls >= 3
    /\ Default \in entered
    /\ Cardinality(entered \ {Default}) >= 2
    /\ current_ = first_nd
    /\ current_ # Default

\* C8: operator=(val) returns val != T{} whatever the latch holds: true for a
\* non-default val that was dropped, false for a default val.
C8_ReturnsCandidateMeaningful ==
    \A w \in Writers : wret[w].done => (wret[w].value <=> wval[w] # Default)

\* one call returned true although its value was dropped, another returned
\* false for the default value
C8_Witness ==
    /\ \E w \in Writers : /\ wret[w].done
                          /\ wret[w].value
                          /\ current_ # wval[w]
    /\ \E w \in Writers : /\ wret[w].done
                          /\ ~wret[w].value
                          /\ wval[w] = Default
                          /\ current_ # Default

(***************************************************************************)
(* Properties of Context                                                   *)
(***************************************************************************)

\* the handler of the model installed on the context rejects code ec
Rejects(ec) == err_handler_ # NoHandler /\ ec = err_handler_

\* C3: with the policy p(e) = (e.code != X) installed, as long as Error was
\* only ever called with code X and Cancel() was not called directly, the flag
\* is false, every IsCancelled() returned false and err_ is the empty error.
C3_RejectedErrorChangesNothing ==
    (/\ err_handler_ # NoHandler
     /\ reported \subseteq {err_handler_}
     /\ ~direct_cancel)
    => /\ ~flag_
       /\ err_ = EmptyError
       /\ err_writes = 0
       /\ (observed.called => ~observed.value)

\* three Error(X, *) calls, so from more than one shard or repeated on one, ran
\* through the handler and returned, and IsCancelled() has been called
C3_Witness ==
    /\ err_handler_ # NoHandler
    /\ reported = {err_handler_}
    /\ ~direct_cancel
    /\ nerr >= 3
    /\ \A s \in Shards : spc[s] = "idle"
    /\ observed.called

\* C4: an Error call returns early only when err_ already held an error, and
\* returns without storing only when the installed handler rejected its
\* candidate; in every other case it returns with err_ equal to its candidate
\* (code and details) and the flag true.
C4_FirstAcceptance ==
    [][\A s \in Shards :
          (spc[s] # "idle" /\ spc'[s] = "idle") =>
             \/ spc[s] = "check" /\ IsError(err_)
             \/ spc[s] = "policy" /\ Rejects(scand[s].ec)
             \/ /\ spc[s] = "unlock"
                /\ err_' = scand[s]
                /\ flag_'
                /\ ~Rejects(scand[s].ec)]_vars

\* an accepted error is about to return, stored and cancelling, after earlier
\* calls that the handler rejected
C4_Witness ==
    \E s \in Shards :
        /\ spc[s] = "unlock"
        /\ err_handler_ # NoHandler
        /\ err_handler_ \in reported
        /\ nerr >= 2
        /\ \A t \in Shards \ {s} : spc[t] = "idle"
        /\ err_writes = 1
        /\ err_ = scand[s]
        /\ IsError(err_)
        /\ err_.details # ""
        /\ flag_
        /\ ~direct_cancel

\* C5: once err_ holds a non-empty error no step changes it or assigns it
\* again; err_ only ever changes to the candidate of a shard inside Error; and
\* when every call has returned and some call reported a non-empty error the
\* policy accepts, err_ holds one such reported error.
C5_KeepsFirstError ==
    [][/\ IsError(err_) => (err_' = err_ /\ err_writes' = err_writes)
       /\ err_' # err_ => \E s \in Shards : spc[s] = "store" /\ err_' = scand[s]
       /\ (/\ \A s \in Shards : spc'[s] = "idle"
           /\ \E ec \in reported' : ec # 0 /\ ~Rejects(ec))
          => (IsError(err_') /\ err_'.ec \in reported' /\ ~Rejects(err_'.ec))]_vars

\* two shards reported different accepted errors, both calls returned, and
\* exactly one of the two is stored
C5_Witness ==
    /\ \A s \in Shards : spc[s] = "idle"
    /\ Cardinality({ec \in reported : ec # 0 /\ ~Rejects(ec)}) >= 2
    /\ IsError(err_)
    /\ err_writes = 1

\* C6 as stated: err_ is assigned at most once, and in every state in which it
\* has been assigned the flag read by a lock-free IsCancelled() is true.
C6_AssignedOnceAndCancelledEverywhere ==
    /\ err_writes <= 1
    /\ err_writes > 0 => flag_

\* C6 amended: err_ becomes non-empty at most once and is not assigned again
\* afterwards, and in every state in which no Error call holds mu_, an err_
\* that has been assigned implies the flag is true.
C6_AssignedOnceCancelledWhenUnlocked ==
    [][/\ (ctx_mu_' = 0 /\ (err_writes' > 0 \/ IsError(err_'))) => flag_'
       /\ IsError(err_) => (IsError(err_') /\ err_writes' = err_writes)]_vars

\* an error was stored on a context whose flag started false, the mutex is
\* free again, and further Error calls came after it
C6_Witness ==
    /\ ctx_mu_ = 0
    /\ IsError(err_)
    /\ err_writes = 1
    /\ flag_
    /\ ~direct_cancel
    /\ err_handler_ # NoHandler
    /\ nerr >= 3
    /\ \A s \in Shards : spc[s] = "idle"

\* C7: no step takes flag_ from true to false (Cancel() on a cancelled context
\* changes nothing), and once an IsCancelled() call returned true the next
\* call returns true as well.
C7_CancellationMonotonic ==
    [][/\ flag_ => flag_'
       /\ (observed.called /\ observed.value) => observed'.value]_vars

\* the flag was set through Error and through a direct Cancel(), and
\* IsCancelled() has returned true
C7_Witness ==
    /\ observed.called
    /\ observed.value
    /\ direct_cancel
    /\ err_writes >= 1
    /\ ctx_mu_ = 0
    /\ flag_

(***************************************************************************)
(* Properties of MemoryCmd                                                 *)
(***************************************************************************)

\* a text of decimal digits only
IsDigitText(t) == t # <<>> /\ \A i \in 1..Len(t) : IsDigit(t[i])

\* the number a digit text denotes, modulo n (Horner's rule on the residues)
RECURSIVE DecimalMod(_, _, _)
DecimalMod(t, n, acc) ==
    IF t = <<>> THEN acc
    ELSE DecimalMod(Tail(t), n, (acc * 10 + DigitOf(Head(t))) % n)

\* a digit text without its leading zeros
RECURSIVE DropZeros(_)
DropZeros(t) == IF t # <<>> /\ Head(t) = "0" THEN DropZeros(Tail(t)) ELSE t

\* digit texts of equal length: a denotes at most what b denotes
RECURSIVE DigitsLeq(_, _)
DigitsLeq(a, b) ==
    IF a = <<>> THEN TRUE
    ELSE IF DigitOf(Head(a)) # DigitOf(Head(b)) THEN DigitOf(Head(a)) < DigitOf(Head(b))
    ELSE DigitsLeq(Tail(a), Tail(b))

\* the digit text denotes a number of at most 2^32 - 1
FitsUInt32(t) ==
    LET d == DropZeros(t)
    IN  \/ Len(d) < 10
        \/ Len(d) = 10 /\ DigitsLeq(d, <<"4", "2", "9", "4", "9", "6", "7", "2", "9", "5">>)

\* the current command is MALLOC-STATS with a selector
HasSelector == Len(args) >= 3 /\ args[2] = "MALLOC-STATS"

\* C9: while MALLOC-STATS waits for its shard, exactly one shard thread holds
\* the work, its index lies in [0, N) and is the tid handed to MallocStats;
\* for a selector that is a digit text denoting s the index is s mod N (shard
\* 0 without a selector; N = 4: "7" gives 3, "4" gives 0, " +11 " gives 3);
\* and no digit text denoting a 32-bit number is answered with an error.
C9_SelectorNormalizedByModulo ==
    /\ cpc = "await" =>
          /\ \E s \in PoolIds :
                /\ s < pool_size
                /\ task[s] = s
                /\ \A t \in PoolIds \ {s} : task[t] = NoTask
          /\ Len(args) = 2 => task[0] = 0
          /\ (HasSelector /\ IsDigitText(args[3])) =>
                task[DecimalMod(args[3], pool_size, 0)] # NoTask
          /\ (HasSelector /\ pool_size = 4 /\ args[3] = <<"7">>) => task[3] = 3
          /\ (HasSelector /\ pool_size = 4 /\ args[3] = <<"4">>) => task[0] = 0
          /\ (HasSelector /\ pool_size = 4 /\ args[3] = <<" ", "+", "1", "1", " ">>)
                => task[3] = 3
    /\ (cpc = "replied" /\ HasSelector /\ IsDigitText(args[3]) /\ FitsUInt32(args[3]))
          => reply.kind = "bulk"

\* four shards and the selector 7: the work waits on shard 3
C9_Witness ==
    /\ cpc = "await"
    /\ pool_size = 4
    /\ args = <<"MEMORY", "MALLOC-STATS", <<"7">>>>
    /\ task[3] = 3

\* C10: a Run whose sub-command is neither USAGE nor MALLOC-STATS sends, as
\* its one reply, the error built by UnknownSubCmd for that sub-command and
\* the family MEMORY, of the syntax-error type; it hands no work to any shard
\* thread and leaves every shard heap as it was.
C10_UnknownSubCommand ==
    [][(cpc = "idle" /\ cpc' # "idle" /\ args'[2] \notin {"USAGE", "MALLOC-STATS"}) =>
          /\ cpc' = "replied"
          /\ reply'.kind = "error"
          /\ reply'.type = kSyntaxErrType
          /\ reply'.payload = UnknownSubCmd(args'[2], "MEMORY")
          /\ reply'.payload.cmd = "MEMORY"
          /\ nsent' = 1
          /\ heap' = heap
          /\ task' = task
          /\ \A s \in PoolIds : task'[s] = NoTask]_vars

\* MEMORY DOCTOR was answered with the error while blocks were live on the
\* shard heaps
C10_Witness ==
    /\ cpc = "replied"
    /\ args[2] = "DOCTOR"
    /\ reply.kind = "error"
    /\ reply.type = kSyntaxErrType
    /\ reply.payload.sub_cmd = "DOCTOR"
    /\ LiveBlocks(heap) > 0
    /\ pool_size > 1

\* the selector text without the white space around it and without one
\* leading plus sign
SelectorCore(t) ==
    LET u == StripRight(StripLeft(t))
    IN  IF u # <<>> /\ Head(u) = "+" THEN Tail(u) ELSE u

\* the text is a valid unsigned integer for the uint32_t tid
IsValidSelector(t) == IsDigitText(SelectorCore(t)) /\ FitsUInt32(SelectorCore(t))

\* C11: a MALLOC-STATS Run whose selector is present and is no valid unsigned
\* (32-bit) integer sends, as its one reply, the invalid-integer error at
\* once: it does not wait for any shard, hands no work to any shard thread,
\* and sends no report.
C11_InvalidSelectorRejected ==
    [][(/\ cpc = "idle" /\ cpc' # "idle"
        /\ Len(args') >= 3 /\ args'[2] = "MALLOC-STATS"
        /\ ~IsValidSelector(args'[3])) =>
          /\ cpc' = "replied"
          /\ reply'.kind = "error"
          /\ reply'.payload = kInvalidIntErr
          /\ nsent' = 1
          /\ res' = NoResult
          /\ heap' = heap
          /\ task' = task
          /\ \A s \in PoolIds : task'[s] = NoTask]_vars

\* MALLOC-STATS -7 was answered with the invalid-integer error on a pool of
\* several shards, no work waiting anywhere
C11_Witness ==
    /\ cpc = "replied"
    /\ args = <<"MEMORY", "MALLOC-STATS", <<"-", "7">>>>
    /\ reply.kind = "error"
    /\ reply.type = ""
    /\ pool_size > 1
    /\ \A s \in PoolIds : task[s] = NoTask

\* the shard index a MALLOC-STATS argument list a selects on a pool of n
ExpectedShard(a, n) ==
    IF Len(a) < 3 THEN 0 ELSE DecimalMod(SelectorCore(a[3]), n, 0)

\* the rows of the report of the heap h: for every shape of area it holds
\* (areas of different class or different used never share a shape) the key
\* of the shape and the number of areas of that shape
RowsOf(h) ==
    { <<<<BlockKinds[a[1]].block_size, BlockKinds[a[1]].reserved,
          BlockKinds[a[1]].committed, BlockKinds[a[1]].block_size * a[2]>>,
        h[a[1]][a[2]]>> : a \in {x \in Areas : h[x[1]][x[2]] > 0} }

\* C19: a MALLOC-STATS Run hands its work to exactly one shard thread, the one
\* with index selector mod N (0 without a selector); the step that builds the
\* report is taken by that thread and by no other, the report's header names
\* that index and its rows are those of that thread's own heap; and a report
\* is sent to the client only by a step that follows the building step and
\* carries the report that step built, nothing being sent while the caller
\* waits.
C19_BuiltOnSelectedShardOnly ==
    [][/\ (cpc = "idle" /\ cpc' = "await") =>
             /\ task'[ExpectedShard(args', pool_size)] = ExpectedShard(args', pool_size)
             /\ \A t \in PoolIds \ {ExpectedShard(args', pool_size)} : task'[t] = NoTask
             /\ nsent' = 0
             /\ reply' = NoReply
       /\ (cpc = "await" /\ cpc' # "await") =>
             /\ cpc' = "resume"
             /\ task[ExpectedShard(args, pool_size)] # NoTask
             /\ \A t \in PoolIds : task'[t] = NoTask
             /\ res'.tid = ExpectedShard(args, pool_size)
             /\ res'.rows = RowsOf(heap[ExpectedShard(args, pool_size)])
             /\ nsent' = 0
             /\ reply' = NoReply
             /\ heap' = heap
       /\ (cpc # "replied" /\ cpc' = "replied" /\ reply'.kind = "bulk") =>
             /\ cpc = "resume"
             /\ reply'.payload = res
             /\ nsent' = 1]_vars

\* the report of shard 3 of 4 was sent for the selector 7 while the heap of
\* shard 0 held a block that shard 3 does not have
C19_Witness ==
    /\ cpc = "replied"
    /\ reply.kind = "bulk"
    /\ pool_size = 4
    /\ args = <<"MEMORY", "MALLOC-STATS", <<"7">>>>
    /\ reply.payload.tid = 3
    /\ reply.payload.rows = RowsOf(heap[3])
    /\ RowsOf(heap[0]) # RowsOf(heap[3])
    /\ RowsOf(heap[3]) # {}

\* C20: every Run has sent exactly one reply when it returns and none before:
\* the integer 1 for USAGE; for MALLOC-STATS either the report its shard
\* built, whole, or the invalid-integer error with no report built at all;
\* for any other sub-command one syntax error with no report built. The
\* number of replies of one Run never exceeds one.
C20_ExactlyOneReply ==
    /\ nsent \in {0, 1}
    /\ cpc \in {"idle", "await", "resume"} => nsent = 0 /\ reply.kind = "none"
    /\ cpc = "replied" =>
          /\ nsent = 1
          /\ IF args[2] = "USAGE"
               THEN reply.kind = "long" /\ reply.payload = 1 /\ res = NoResult
             ELSE IF args[2] = "MALLOC-STATS"
               THEN \/ reply.kind = "bulk" /\ reply.payload = res
                    \/ /\ reply.kind = "error"
                       /\ reply.payload = kInvalidIntErr
                       /\ res = NoResult
             ELSE /\ reply.kind = "error"
                  /\ reply.type = kSyntaxErrType
                  /\ res = NoResult

\* USAGE was answered with the one integer on a pool of several shards that
\* hold live blocks
C20_Witness ==
    /\ cpc = "replied"
    /\ args[2] = "USAGE"
    /\ reply = SendLong(1)
    /\ nsent = 1
    /\ pool_size > 1
    /\ LiveBlocks(heap) > 0

\* the sum of f over the elements of the finite set S
RECURSIVE SumOver(_, _)
SumOver(S, f) ==
    IF S = {} THEN 0
    ELSE LET x == CHOOSE y \in S : TRUE
         IN  f[x] + SumOver(S \ {x}, f)

\* count times the i-th figure of the shape, summed over the rows
TotalOf(rows, i) == SumOver(rows, [r \in rows |-> r[2] * r[1][i]])

\* the sum of the counts the histograms of all shards have under shape k
CountOverShards(reps, k) ==
    SumOver(Shards,
            [s \in Shards |-> SumOver({r \in reps[s].rows : r[1] = k},
                                      [r \in reps[s].rows |-> r[2]])])

\* the shape of the worked example
Shape8 == <<8, 8, 8, 8>>

\* C12: the merged report has, for every shape (block_size, reserved,
\* committed, used) that some shard histogram has, a count equal to the sum of
\* that shape's counts over all shard histograms, and no other row; its total
\* reserved / committed / used are the sums over the shapes of count times the
\* shape's reserved / committed / used figure; folding the shard reports in
\* any order, the reverse shard order included, gives the identical report;
\* and when shard 1 reports {(8,8,8,8): 3}, shard 2 reports {(8,8,8,8): 2}
\* and no other shard reports a row, the count is 5 and each total is 40.
C12_FanoutMerge ==
    mpc = "done" =>
       /\ agg.rows = {<<k, CountOverShards(mrep, k)>> :
                        k \in UNION {{r[1] : r \in mrep[s].rows} : s \in Shards}}
       /\ agg.reserved = TotalOf(agg.rows, 2)
       /\ agg.committed = TotalOf(agg.rows, 3)
       /\ agg.used = TotalOf(agg.rows, 4)
       /\ \A q \in ShardOrders : FoldReports(q, mrep, NumShards) = agg
       /\ (/\ mrep[1].rows = {<<Shape8, 3>>}
           /\ mrep[2].rows = {<<Shape8, 2>>}
           /\ \A s \in Shards \ {1, 2} : mrep[s].rows = {})
             => /\ agg.rows = {<<Shape8, 5>>}
                /\ agg.reserved = 40 /\ agg.committed = 40 /\ agg.used = 40

\* the reports {(8,8,8,8): 3} of shard 1 and {(8,8,8,8): 2} of shard 2 were
\* folded in reverse shard order into count 5 and totals of 40
C12_Witness ==
    /\ mpc = "done"
    /\ morder[1] = 2 /\ morder[2] = 1
    /\ mrep[1].rows = {<<Shape8, 3>>}
    /\ mrep[2].rows = {<<Shape8, 2>>}
    /\ agg.rows = {<<Shape8, 5>>}
    /\ agg.reserved = 40 /\ agg.committed = 40 /\ agg.used = 40

(***************************************************************************)
(* Further properties of Context                                           *)
(***************************************************************************)

\* C16: on a context whose Cancel() is never called directly, no step makes
\* IsCancelled() true while the stored error is empty; in particular an Error
\* call whose candidate has the OK code does not set the flag.
C16_CancelledOnlyWithError ==
    [][(~direct_cancel' /\ ~flag_ /\ flag_') => IsError(err_')]_vars

\* the shards whose Error call is at the given point
ShardsAt(pcs, where) == {s \in Shards : pcs[s] = where}

\* C17: the accept policy runs only in a call that holds the context's mutex,
\* so never in two shards at once, and only while the stored error is empty;
\* an Error call reaches it once, straight after the test of the stored
\* error, and leaves it for the store or for its return; it is never reached
\* once a non-empty error is stored; and when every candidate is non-empty it
\* accepts at most once per context.
C17_PolicyInsideCriticalSection ==
    [][/\ \A s \in Shards :
             /\ spc'[s] = "policy" => ctx_mu_' = s /\ ~IsError(err_')
             /\ (spc[s] # "policy" /\ spc'[s] = "policy") => spc[s] = "check"
             /\ (spc[s] = "policy" /\ spc'[s] # "policy") => spc'[s] \in {"store", "idle"}
       /\ Cardinality(ShardsAt(spc', "policy")) <= 1
       /\ IsError(err_) => ShardsAt(spc', "policy") = {}
       /\ 0 \notin reported' =>
             err_writes' + Cardinality(ShardsAt(spc', "store")) <= 1]_vars

\* a handler is installed; one shard runs it on a non-empty candidate while
\* the other shard waits for the mutex with its own candidate
C17_Witness ==
    /\ err_handler_ # NoHandler
    /\ \E s \in Shards, t \in Shards :
          /\ spc[s] = "policy"
          /\ ctx_mu_ = s
          /\ IsError(scand[s])
          /\ spc[t] = "lock"
          /\ IsError(scand[t])
    /\ ~IsError(err_)

(***************************************************************************)
(* Properties of KeyIndex                                                  *)
(***************************************************************************)

\* C14: for every descriptor with end >= start and step >= 1, num_args() is
\* end - start, plus one when there is a bonus position, and HasSingleKey()
\* holds exactly when there is no bonus position and one step from start
\* reaches end; {0,0,1,1} (bonus, start, end, step) gives true and 1,
\* {0,1,5,2} gives false and 4, {1,0,2,1} gives 3.
C14_KeyDescriptorArithmetic ==
    /\ nargs.called =>
          /\ kidx.bonus = 0 => nargs.value + kidx.start = kidx.end
          /\ kidx.bonus # 0 => nargs.value + kidx.start = kidx.end + 1
          /\ kidx = [bonus |-> 0, start |-> 0, end |-> 1, step |-> 1] => nargs.value = 1
          /\ kidx = [bonus |-> 0, start |-> 1, end |-> 5, step |-> 2] => nargs.value = 4
          /\ kidx = [bonus |-> 1, start |-> 0, end |-> 2, step |-> 1] => nargs.value = 3
    /\ single_key.called =>
          /\ single_key.value <=> (kidx.bonus = 0 /\ kidx.end - kidx.start <= kidx.step)
          /\ kidx = [bonus |-> 0, start |-> 0, end |-> 1, step |-> 1] => single_key.value
          /\ kidx = [bonus |-> 0, start |-> 1, end |-> 5, step |-> 2] => ~single_key.value

\* both calls were made on {bonus=0, start=1, end=5, step=2}
C14_Witness ==
    /\ kidx = [bonus |-> 0, start |-> 1, end |-> 5, step |-> 2]
    /\ nargs = [called |-> TRUE, value |-> 4]
    /\ single_key = [called |-> TRUE, value |-> FALSE]

\* C18: for every descriptor with end >= start and step >= 1, HasSingleKey()
\* is true exactly when key extraction yields exactly one key; in particular
\* it is not true for a descriptor that yields no key.
C18_SingleKeyIffOneKeyExtracted ==
    (single_key.called /\ keys.called) =>
        (single_key.value <=> Len(keys.value) = 1)

(***************************************************************************)
(* Properties of ScanOpts                                                  *)
(***************************************************************************)

\* the argument list a names the option opt at an option position
HasOption(a, opt) == \E i \in 1..Len(a) : i % 2 = 1 /\ a[i] = opt

\* C15: a ScanOpts that TryFrom built from an argument list without COUNT
\* has limit 10, one built from a list without BUCKET has the bucket id
\* UINT_MAX (no restriction), and one built from a list without TYPE has an
\* empty type_filter; a ScanOpts that no argument list touched has all three.
C15_ScanDefaults ==
    /\ (scan_res.called /\ scan_res.status = "OK") =>
          /\ ~HasOption(scan_args, "COUNT") => scan_res.opts.limit = 10
          /\ ~HasOption(scan_args, "BUCKET") =>
                /\ scan_res.opts.bucket_id.hi = 65535
                /\ scan_res.opts.bucket_id.lo = 65535
          /\ ~HasOption(scan_args, "TYPE") => scan_res.opts.type_filter = <<>>
    /\ ~scan_res.called =>
          /\ scan_res.opts.limit = 10
          /\ scan_res.opts.bucket_id = [hi |-> 65535, lo |-> 65535]
          /\ scan_res.opts.type_filter = <<>>

\* MATCH u* alone was parsed: the pattern is set, the rest is as defaulted
C15_Witness ==
    /\ scan_res.called
    /\ scan_res.status = "OK"
    /\ scan_args = <<"MATCH", <<"u", "*">>>>
    /\ scan_res.opts.pattern = <<"u", "*">>
    /\ scan_res.opts.limit = 10
    /\ scan_res.opts.bucket_id = UINT_MAX
    /\ scan_res.opts.type_filter = <<>>

(***************************************************************************)
(* Properties of the broadcast                                             *)
(***************************************************************************)

\* C13: the caller of a broadcast resumes only when the work of every shard
\* has finished, and receives the result of every shard then and no result
\* of any shard before; a step of one shard's Error call on the shared
\* Context changes neither the work nor the result of any other shard; and
\* the work of a shard ends early only by that shard's own poll of the
\* cancellation flag.
C13_BroadcastIsFullBarrier ==
    [][/\ bpc' = "done" =>
             \A s \in Shards :
                /\ bwork'[s] = "finished"
                /\ bout'[s] \in {"complete", "stopped"}
                /\ bresult'[s] = bout'[s]
       /\ bpc' # "done" => bresult' = NoWork
       /\ \A s \in Shards :
             spc'[s] # spc[s] =>
                \A t \in Shards \ {s} : bwork'[t] = bwork[t] /\ bout'[t] = bout[t]
       /\ (flag_' # flag_ \/ err_' # err_) => (bwork' = bwork /\ bout' = bout /\ bpc' = bpc)
       /\ \A t \in Shards :
             (bout'[t] = "stopped" /\ bout[t] # "stopped") =>
                (flag_ /\ bwork[t] = "running")]_vars

\* the caller has resumed with every shard's work run to completion although
\* one shard, and only one, reported an error that cancelled the Context
C13_Witness ==
    /\ bpc = "done"
    /\ flag_
    /\ IsError(err_)
    /\ nerr = 1
    /\ \A s \in Shards : bresult[s] = "complete"

====
